---- MODULE Spec2Model ----
(***************************************************************************)
(* Tor Weather: the subscription trigger logic.                            *)
(*                                                                         *)
(* Two revisions of the application live in the repository:               *)
(*   src/weatherapp/models.py          the first draft, which holds the    *)
(*                                     node-down poll check_node_down and  *)
(*                                     TorPing.ping;                       *)
(*   src/weather/weatherapp/models.py  the later revision, which holds     *)
(*                                     NodeDownSub, TShirtSub and the      *)
(*                                     helper hours_since_changed.         *)
(* The draft omits `self.` throughout (`def should_email()`, bare          *)
(* `triggered`, `pinger`); the bare names are read as the attributes of    *)
(* the object they are written in.  check_node_down assigns the fields of  *)
(* the subscriptions it iterates over and calls no save(); the fields it   *)
(* assigns are taken as the stored fields of the subscription.  It assigns *)
(* `datetime.datetime` to last_changed, read as the time of the poll.      *)
(* Both revisions read `.hours` of a timedelta (draft line 91, later       *)
(* revision line 60), an attribute timedelta does not have;                *)
(* get_hours_since_triggered (lines 451-454) computes the whole hours from *)
(* the attributes that exist, seconds / 3600 + days * 24, and that is the  *)
(* value the trigger logic uses for the elapsed hours.  The helper         *)
(* hours_since_changed itself is modelled as its two lines run.            *)
(*                                                                         *)
(* The later revision is valid Python and is modelled as it runs: a name   *)
(* that is not defined where it is used raises NameError (emails.py line   *)
(* 143, models.py line 1084).  PreferencesForm.change_subscriptions is     *)
(* modelled as the method is written, called with the new preferences.     *)
(* check_out_of_date, check_below_bandwidth and check_earn_tshirt are      *)
(* empty in the draft, and no revision stores what a poll computed; those  *)
(* parts follow the design of the trigger engine.                          *)
(*                                                                         *)
(* Time is the wall clock in seconds.                                      *)
(***************************************************************************)
EXTENDS Integers, Sequences, FiniteSets, TLC

(***************************************************************************)
(* Bounds of the model.                                                    *)
(***************************************************************************)
MaxPolls == 6
MaxGrace == 2
MaxTPolls == 4
MaxAvg == 3
MaxHours == 3
MaxSample == 3

\* gaps between two polls, in seconds: 30 minutes, 1 hour, 10 hours
Gaps == {1800, 3600, 36000}
\* grace periods a node-down subscription is created with (hours)
GracePds == 1..MaxGrace

VARIABLES
    now,            \* wall clock, seconds
    subscription,   \* the node-down Subscription record
    polls,          \* number of check_node_down runs so far
    outcome,        \* what the control port answered in the last poll
    fired,          \* whether the last poll sent a node-down email
    sent,           \* node-down emails sent so far
    episodeSent,    \* node-down emails sent since triggered last became true
    downSince,      \* time of the poll that last set triggered
    tshirt,         \* the TShirtSub record
    exit,           \* Router.exit of the watched router
    tpolls,         \* number of T-shirt polls so far
    tsent,          \* T-shirt emails sent so far
    tbounced,       \* the router went down after the T-shirt email
    upSince,        \* time of the T-shirt poll that last set triggered
    tsnap,          \* the snapshot the last T-shirt poll saw
    se,             \* inputs and result of one TShirtSub.should_email call
    bw,             \* inputs and result of one get_new_avg_bandwidth call
    versionsub,     \* the VersionSub record
    bandwidthsub,   \* the BandwidthSub record
    vbh,            \* the last version/bandwidth poll: what it saw and sent
    store,          \* the NodeDownSub row of the database (present or not)
    engine,         \* the poll cycle's position and its copy of the row
    pref,           \* change_subscriptions' position, its copy n, new_data
    ilh,            \* steps taken and the last step of the interleaving
    cycle,          \* a poll cycle over two subscriptions of one router
    db,             \* the tables of the web application
    req,            \* the subscribe requests: position, POST data, result
    outbox,         \* the mails handed to send_mail
    acct,           \* the requests to the account views: count, last, threads
    hsc             \* argument and outcome of one hours_since_changed call

ndVars == <<subscription, polls, outcome, fired, sent, episodeSent, downSince>>
tsVars == <<tshirt, exit, tpolls, tsent, tbounced, upSince, tsnap>>
fnVars == <<se, bw>>
vbVars == <<versionsub, bandwidthsub, vbh>>
ilVars == <<store, engine, pref, ilh>>
cyVars == <<cycle>>
webVars == <<db, req, outbox>>
lateVars == <<acct, hsc>>
xVars == <<vbVars, ilVars, cyVars, webVars, lateVars>>
vbOthers == <<ndVars, tsVars, fnVars, ilVars, cyVars, webVars, lateVars>>
ilOthers == <<ndVars, tsVars, fnVars, vbVars, cyVars, webVars, lateVars>>
cyOthers == <<ndVars, tsVars, fnVars, vbVars, ilVars, webVars, lateVars>>
webOthers == <<now, ndVars, tsVars, fnVars, vbVars, ilVars, cyVars, lateVars>>
acctOthers == <<now, ndVars, tsVars, fnVars, vbVars, ilVars, cyVars, req, hsc>>
hscOthers == <<ndVars, tsVars, fnVars, vbVars, ilVars, cyVars, webVars, acct>>
vars == <<now, ndVars, tsVars, fnVars, xVars>>

(***************************************************************************)
(* datetime arithmetic                                                     *)
(***************************************************************************)
\* datetime.now() - last_changed: a timedelta stores days and seconds only
timedelta(t, last_changed) ==
    [days |-> (t - last_changed) \div 86400,
     seconds |-> (t - last_changed) % 86400]

\* whole hours of a timedelta, as TShirtSub.get_hours_since_triggered
\* computes them: seconds / 3600 + days * 24
timedelta_hours(td) == td.seconds \div 3600 + td.days * 24

\* attribute lookup on a timedelta: days and seconds exist, any other name
\* raises AttributeError
timedelta_getattr(td, name) ==
    IF name = "days" THEN [error |-> "", value |-> td.days]
    ELSE IF name = "seconds" THEN [error |-> "", value |-> td.seconds]
    ELSE [error |-> "AttributeError", value |-> 0]

\* hours_since_changed(last_changed), evaluated at time t, as the later
\* revision runs it: (time_since_changed.hours * 24) is evaluated first
hours_since_changed(last_changed, t) ==
    LET time_since_changed == timedelta(t, last_changed)
        hours == timedelta_getattr(time_since_changed, "hours")
        seconds == timedelta_getattr(time_since_changed, "seconds")
    IN  IF hours.error # ""
        THEN [error |-> hours.error, value |-> 0]
        ELSE [error |-> "",
              value |-> (hours.value * 24) + (seconds.value \div 3600)]

(***************************************************************************)
(* The node-down subscription (first draft)                                *)
(***************************************************************************)
\* Subscription.should_email without the emailed latch
should_email_nolatch(s, t) ==
    LET time_since_changed == timedelta(t, s.last_changed)
        hours == timedelta_hours(time_since_changed)
    IN  s.triggered /\ (hours > s.grace_pd)

\* Subscription.should_email(), evaluated at time t: triggered and not
\* emailed and hours_since_changed > grace_pd (strictly)
should_email(s, t) ==
    LET time_since_changed == timedelta(t, s.last_changed)
        hours == timedelta_hours(time_since_changed)
    IN  s.triggered /\ ~s.emailed /\ (hours > s.grace_pd)

\* NodeDownSub.is_grace_passed(), evaluated at time t, with the whole hours
\* of the timedelta as the elapsed hours
is_grace_passed(s, t) ==
    IF s.triggered
       /\ timedelta_hours(timedelta(t, s.last_changed)) >= s.grace_pd
    THEN TRUE
    ELSE FALSE

\* answers of the control port to get_info("ns/id/<node>"):
\*   "ok"          the router is listed,
\*   "ErrorReply"  552 Unrecognized key: the router is not listed,
\*   "error"       any other exception (the control connection failed)
Outcomes == {"ok", "ErrorReply", "error"}

\* TorPing.ping(nodeId)
ping(o) ==
    CASE o = "ok" -> TRUE
      [] o = "ErrorReply" -> FALSE
      [] OTHER -> FALSE

\* the loop body of check_node_down with last_changed restarted by every
\* poll that sees the node down
check_node_down_restart(s, is_up, t) ==
    IF is_up
    THEN IF s.triggered
         THEN [sub |-> [s EXCEPT !.triggered = FALSE, !.last_changed = t],
               send |-> FALSE]
         ELSE [sub |-> s, send |-> FALSE]
    ELSE IF s.triggered
         THEN IF should_email(s, t)
              THEN [sub |-> [s EXCEPT !.emailed = TRUE, !.last_changed = t],
                    send |-> TRUE]
              ELSE [sub |-> [s EXCEPT !.last_changed = t], send |-> FALSE]
         ELSE [sub |-> [s EXCEPT !.triggered = TRUE, !.last_changed = t],
               send |-> FALSE]

\* the loop body of CheckSubscriptions.check_node_down for one subscription:
\* the subscription after the poll, and whether a node-down email was sent
check_node_down(s, is_up, t) ==
    IF is_up
    THEN IF s.triggered
         THEN [sub |-> [s EXCEPT !.triggered = FALSE, !.last_changed = t],
               send |-> FALSE]
         ELSE [sub |-> s, send |-> FALSE]
    ELSE IF s.triggered
         THEN IF should_email(s, t)
              THEN [sub |-> [s EXCEPT !.emailed = TRUE], send |-> TRUE]
              ELSE [sub |-> s, send |-> FALSE]
         ELSE [sub |-> [s EXCEPT !.triggered = TRUE, !.last_changed = t],
               send |-> FALSE]

\* Subscription.add_new_subscription: a new node-down subscription
add_new_subscription(grace_pd, t) ==
    [grace_pd |-> grace_pd, emailed |-> FALSE, triggered |-> FALSE,
     last_changed |-> t]

NdInit ==
    /\ \E g \in GracePds : subscription = add_new_subscription(g, 0)
    /\ polls = 0
    /\ outcome = "none"
    /\ fired = FALSE
    /\ sent = 0
    /\ episodeSent = 0
    /\ downSince = 0

TsIdle ==
    /\ tshirt = [emailed |-> FALSE, triggered |-> FALSE, avg_bandwidth |-> 0,
                 last_changed |-> 0]
    /\ exit = FALSE
    /\ tpolls = 0
    /\ tsent = 0
    /\ tbounced = FALSE
    /\ upSince = 0
    /\ tsnap = "none"

FnIdle ==
    /\ se = [done |-> FALSE]
    /\ bw = [done |-> FALSE]

\* VersionSub and BandwidthSub as the subscribe form creates them
VbIdle ==
    /\ versionsub = [notify_type |-> "UNRECOMMENDED", emailed |-> FALSE]
    /\ bandwidthsub = [threshold |-> 20, emailed |-> FALSE]
    /\ vbh = [polls |-> 0, snap |-> "none", version |-> "none",
              bandwidth |-> 0, vfired |-> FALSE, bfired |-> FALSE,
              vsent |-> 0, bsent |-> 0]

\* no row, no poll cycle and no preferences request under way
IlIdle ==
    /\ store = [present |-> FALSE, grace_pd |-> 1, emailed |-> FALSE,
                triggered |-> FALSE, last_changed |-> 0]
    /\ engine = [pc |-> "idle", sub |-> store]
    /\ pref = [pc |-> "idle", n |-> store,
               new_data |-> [get_node_down |-> FALSE,
                             node_down_grace_pd |-> 1]]
    /\ ilh = [steps |-> 0, last |-> "none"]

\* no poll cycle under way, two new node-down subscriptions
CyIdle ==
    cycle = [subs |-> <<add_new_subscription(1, 0),
                        add_new_subscription(1, 0)>>,
             start |-> <<add_new_subscription(1, 0),
                         add_new_subscription(1, 0)>>,
             i |-> 0, o |-> "none", cycles |-> 0, abandoned |-> FALSE]

\* empty tables, no request, no mail
WebIdle ==
    /\ db = [routers |-> {}, subscribers |-> {}, node_down |-> {},
             version |-> {}, band_low |-> {}, t_shirt |-> {}, next_id |-> 1]
    /\ req = <<>>
    /\ outbox = <<>>

\* no request to an account view yet
AcctIdle ==
    acct = [n |-> 0,
            last |-> [view |-> "none", token |-> <<>>, method |-> "",
                      data |-> <<>>, user |-> 0, response |-> ""],
            threads |-> <<>>, started |-> <<>>]

\* no hours_since_changed call
HscIdle == hsc = [done |-> FALSE]

LateIdle == AcctIdle /\ HscIdle

XIdle == VbIdle /\ IlIdle /\ CyIdle /\ WebIdle /\ LateIdle

Init ==
    /\ now = 0
    /\ NdInit
    /\ TsIdle
    /\ FnIdle
    /\ XIdle

\* one run of check_node_down, gap seconds after the previous one, in which
\* the control port answers o
Poll(gap, o) ==
    /\ polls < MaxPolls
    /\ now' = now + gap
    /\ polls' = polls + 1
    /\ outcome' = o
    /\ LET r == check_node_down(subscription, ping(o), now + gap)
       IN  /\ subscription' = r.sub
           /\ fired' = r.send
           /\ sent' = IF r.send THEN sent + 1 ELSE sent
           /\ episodeSent' =
                IF ~subscription.triggered /\ r.sub.triggered THEN 0
                ELSE IF r.send THEN episodeSent + 1 ELSE episodeSent
           /\ downSince' =
                IF ~subscription.triggered /\ r.sub.triggered THEN now + gap
                ELSE downSince
    /\ UNCHANGED <<tsVars, fnVars, xVars>>

PollUp == \E gap \in Gaps : Poll(gap, "ok")
PollDown == \E gap \in Gaps : Poll(gap, "ErrorReply")
PollError == \E gap \in Gaps : Poll(gap, "error")

Next == PollUp \/ PollDown \/ PollError

Spec == Init /\ [][Next]_vars

\* check_node_down abandoned between Emailer.send_node_down_email (line 189)
\* and subscription.emailed = True (line 190): the process stops, or the
\* write of emailed fails.  The email has left, the stored subscription is
\* as the poll found it.
PollInterrupted(gap, o) ==
    /\ polls < MaxPolls
    /\ ~ping(o)
    /\ subscription.triggered
    /\ should_email(subscription, now + gap)
    /\ now' = now + gap
    /\ polls' = polls + 1
    /\ outcome' = o
    /\ fired' = TRUE
    /\ sent' = sent + 1
    /\ episodeSent' = episodeSent + 1
    /\ UNCHANGED <<subscription, downSince, tsVars, fnVars, xVars>>

PollDownInterrupted == \E gap \in Gaps : PollInterrupted(gap, "ErrorReply")

NextCrash == PollUp \/ PollDown \/ PollError \/ PollDownInterrupted

SpecCrash == Init /\ [][NextCrash]_vars

(***************************************************************************)
(* The T-shirt subscription (later revision)                               *)
(***************************************************************************)
T_SHIRT_HOURS == 1464
T_SHIRT_EXIT_BANDWIDTH == 100
T_SHIRT_NONEXIT_BANDWIDTH == 500

\* get_hours_since_triggered without the days of the timedelta
get_hours_since_triggered_nodays(s, t) ==
    IF s.triggered = FALSE
    THEN 0
    ELSE LET time_since_triggered == timedelta(t, s.last_changed)
         IN  time_since_triggered.seconds \div 3600

\* TShirtSub.get_hours_since_triggered(), evaluated at time t
get_hours_since_triggered(s, t) ==
    IF s.triggered = FALSE
    THEN 0
    ELSE LET time_since_triggered == timedelta(t, s.last_changed)
         IN  time_since_triggered.seconds \div 3600 +
             time_since_triggered.days * 24

\* TShirtSub.should_email with the bandwidth floors excluded (>)
TShirtSub_should_email_strict(s, router_exit, hours_up) ==
    IF ~s.emailed /\ s.triggered /\ hours_up >= T_SHIRT_HOURS
    THEN IF router_exit
         THEN s.avg_bandwidth > T_SHIRT_EXIT_BANDWIDTH
         ELSE s.avg_bandwidth > T_SHIRT_NONEXIT_BANDWIDTH
    ELSE FALSE

\* TShirtSub.should_email without the emailed test
TShirtSub_should_email_rearm(s, router_exit, hours_up) ==
    IF s.triggered /\ hours_up >= T_SHIRT_HOURS
    THEN IF router_exit
         THEN s.avg_bandwidth >= T_SHIRT_EXIT_BANDWIDTH
         ELSE s.avg_bandwidth >= T_SHIRT_NONEXIT_BANDWIDTH
    ELSE FALSE

\* TShirtSub.should_email(hours_up); router_exit is self.subscriber.router.exit
TShirtSub_should_email(s, router_exit, hours_up) ==
    IF ~s.emailed /\ s.triggered /\ hours_up >= T_SHIRT_HOURS
    THEN IF router_exit
         THEN s.avg_bandwidth >= T_SHIRT_EXIT_BANDWIDTH
         ELSE s.avg_bandwidth >= T_SHIRT_NONEXIT_BANDWIDTH
    ELSE FALSE

\* the update rule of section 4.1 of the design: A - A/H + S/H, S when H = 0
get_new_avg_bandwidth_ewma(avg_bandwidth, hours_up, current_bandwidth) ==
    IF hours_up = 0
    THEN current_bandwidth
    ELSE avg_bandwidth - avg_bandwidth \div hours_up
             + current_bandwidth \div hours_up

\* CtlUtil.get_new_avg_bandwidth: the integer running mean over hours_up + 1
\* samples; test_bandwidth_calc pins (100, 1400, 0) -> 99, (10, 5, 500) -> 91
get_new_avg_bandwidth(avg_bandwidth, hours_up, current_bandwidth) ==
    (hours_up * avg_bandwidth + current_bandwidth) \div (hours_up + 1)

\* gaps between two T-shirt polls: 1 hour, 1463 hours, 1464 hours
TGaps == {3600, 1463 * 3600, 1464 * 3600}
\* observed bandwidth samples, KB/s
TSamples == {0, 100, 500}

\* snapshots of the router: up, down, or no answer
Snapshots == {"up", "down", "unknown"}

\* one T-shirt evaluation of a subscription at time t: the metrics are
\* folded first, then should_email decides; the subscription after the poll
\* and whether the T-shirt email was sent
check_earn_tshirt(s, router_exit, snap, sample, t) ==
    IF snap = "unknown"
    THEN [sub |-> s, send |-> FALSE]
    ELSE IF snap = "down"
    THEN IF s.triggered
         THEN [sub |-> [s EXCEPT !.triggered = FALSE, !.last_changed = t],
               send |-> FALSE]
         ELSE [sub |-> s, send |-> FALSE]
    ELSE LET s1 == IF s.triggered THEN s
                   ELSE [s EXCEPT !.triggered = TRUE, !.last_changed = t]
             hours_up == get_hours_since_triggered(s1, t)
             s2 == [s1 EXCEPT !.avg_bandwidth =
                       get_new_avg_bandwidth(s1.avg_bandwidth, hours_up,
                                             sample)]
         IN  IF TShirtSub_should_email(s2, router_exit, hours_up)
             THEN [sub |-> [s2 EXCEPT !.emailed = TRUE], send |-> TRUE]
             ELSE [sub |-> s2, send |-> FALSE]

NdIdle ==
    /\ subscription = add_new_subscription(1, 0)
    /\ polls = 0
    /\ outcome = "none"
    /\ fired = FALSE
    /\ sent = 0
    /\ episodeSent = 0
    /\ downSince = 0

InitTShirt ==
    /\ now = 0
    /\ NdIdle
    /\ tshirt = [emailed |-> FALSE, triggered |-> FALSE, avg_bandwidth |-> 0,
                 last_changed |-> 0]
    /\ exit \in BOOLEAN
    /\ tpolls = 0
    /\ tsent = 0
    /\ tbounced = FALSE
    /\ upSince = 0
    /\ tsnap = "none"
    /\ FnIdle
    /\ XIdle

TShirtPoll(gap, snap, sample) ==
    /\ tpolls < MaxTPolls
    /\ now' = now + gap
    /\ tpolls' = tpolls + 1
    /\ LET r == check_earn_tshirt(tshirt, exit, snap, sample, now + gap)
       IN  /\ tshirt' = r.sub
           /\ tsent' = IF r.send THEN tsent + 1 ELSE tsent
           /\ tbounced' = (tbounced \/ (tshirt.emailed /\ ~r.sub.triggered))
           /\ upSince' = IF ~tshirt.triggered /\ r.sub.triggered
                         THEN now + gap ELSE upSince
    /\ tsnap' = snap
    /\ UNCHANGED <<exit, ndVars, fnVars, xVars>>

TShirtPollUp ==
    \E gap \in TGaps, sample \in TSamples : TShirtPoll(gap, "up", sample)
TShirtPollDown == \E gap \in TGaps : TShirtPoll(gap, "down", 0)
TShirtPollUnknown == \E gap \in TGaps : TShirtPoll(gap, "unknown", 0)

NextTShirt == TShirtPollUp \/ TShirtPollDown \/ TShirtPollUnknown

SpecTShirt == InitTShirt /\ [][NextTShirt]_vars

(***************************************************************************)
(* TShirtSub.should_email as a function of its inputs                      *)
(***************************************************************************)
HoursUps == {0, 1463, 1464, 1465}
AvgBandwidths == {0, 99, 100, 101, 499, 500, 501}

InitShouldEmail ==
    /\ now = 0
    /\ NdIdle
    /\ TsIdle
    /\ se \in [done : {FALSE}, emailed : BOOLEAN, triggered : BOOLEAN,
                exit : BOOLEAN, hours_up : HoursUps,
                avg_bandwidth : AvgBandwidths, result : {FALSE}]
    /\ bw = [done |-> FALSE]
    /\ XIdle

CallShouldEmail ==
    /\ ~se.done
    /\ se' = [se EXCEPT !.done = TRUE,
                        !.result = TShirtSub_should_email(
                            [emailed |-> se.emailed,
                             triggered |-> se.triggered,
                             avg_bandwidth |-> se.avg_bandwidth,
                             last_changed |-> 0],
                            se.exit, se.hours_up)]
    /\ UNCHANGED <<now, ndVars, tsVars, bw, xVars>>

NextShouldEmail == CallShouldEmail

SpecShouldEmail == InitShouldEmail /\ [][NextShouldEmail]_vars

(***************************************************************************)
(* hours_since_changed as a function of its inputs                         *)
(***************************************************************************)
MaxElapsedHours == 50

\* the elapsed times of the calls: every whole hour up to the bound, and
\* half an hour and one second short of the next hour after it
ElapsedTimes ==
    {h * 3600 + s : h \in 0..MaxElapsedHours, s \in {0, 1800, 3599}}

LastChangedTimes == {0, 86400}

InitHours ==
    /\ NdIdle
    /\ TsIdle
    /\ FnIdle
    /\ VbIdle
    /\ IlIdle
    /\ CyIdle
    /\ WebIdle
    /\ AcctIdle
    /\ \E last_changed \in LastChangedTimes, elapsed \in ElapsedTimes :
          /\ now = last_changed + elapsed
          /\ hsc = [done |-> FALSE, last_changed |-> last_changed,
                    error |-> "", value |-> 0]

CallHoursSinceChanged ==
    /\ ~hsc.done
    /\ LET r == hours_since_changed(hsc.last_changed, now)
       IN  hsc' = [hsc EXCEPT !.done = TRUE, !.error = r.error,
                              !.value = r.value]
    /\ UNCHANGED <<now, hscOthers>>

NextHours == CallHoursSinceChanged

SpecHours == InitHours /\ [][NextHours]_vars

(***************************************************************************)
(* get_new_avg_bandwidth as a function of its inputs                       *)
(***************************************************************************)
AvgIn == (0..MaxAvg) \cup {10, 100}
HoursIn == (0..MaxHours) \cup {5, 1400}
SampleIn == (0..MaxSample) \cup {500}

InitBandwidth ==
    /\ now = 0
    /\ NdIdle
    /\ TsIdle
    /\ se = [done |-> FALSE]
    /\ bw \in [done : {FALSE}, avg_bandwidth : AvgIn, hours_up : HoursIn,
                current_bandwidth : SampleIn, new_avg : {0}]
    /\ XIdle

CallGetNewAvgBandwidth ==
    /\ ~bw.done
    /\ bw' = [bw EXCEPT !.done = TRUE,
                        !.new_avg = get_new_avg_bandwidth(
                            bw.avg_bandwidth, bw.hours_up,
                            bw.current_bandwidth)]
    /\ UNCHANGED <<now, ndVars, tsVars, se, xVars>>

NextBandwidth == CallGetNewAvgBandwidth

SpecBandwidth == InitBandwidth /\ [][NextBandwidth]_vars

(***************************************************************************)
(* The version and low-bandwidth subscriptions                             *)
(***************************************************************************)
MaxVPolls == 3

\* VersionSub.notify_type choices (GenericForm._VERSION_TYPE_CHOICES)
NotifyTypes == {"UNRECOMMENDED", "OBSOLETE"}
\* how the router's Tor version stands against the recommended list:
\*   "LATEST"       the most recent stable version of the list,
\*   "RECOMMENDED"  on the list, not the most recent stable version,
\*   "OBSOLETE"     not on the list
VersionClasses == {"LATEST", "RECOMMENDED", "OBSOLETE"}
\* thresholds (KB/s) and observed bandwidths (KB/s) of the model
Thresholds == {20, 40}
Bandwidths == {19, 20, 39, 40}

\* VersionSub: OBSOLETE notifies when the version is not on the recommended
\* list, UNRECOMMENDED when it is not the most recent stable version
is_out_of_date(notify_type, version) ==
    IF notify_type = "OBSOLETE"
    THEN version = "OBSOLETE"
    ELSE version # "LATEST"

\* the low-bandwidth test with the threshold itself counted as low
is_below_bandwidth_inclusive(threshold, bandwidth) == bandwidth <= threshold

\* BandwidthSub: the observed bandwidth is below the threshold
is_below_bandwidth(threshold, bandwidth) == bandwidth < threshold

\* a latch that sends on every poll that finds the condition triggered
latch_resend(s, bad) ==
    IF bad
    THEN [sub |-> [s EXCEPT !.emailed = TRUE], send |-> TRUE]
    ELSE [sub |-> [s EXCEPT !.emailed = FALSE], send |-> FALSE]

\* the latch of a subscription without grace period: send on the poll that
\* finds the condition triggered and not yet emailed, clear emailed on the
\* poll that finds it compliant
latch(s, bad) ==
    IF bad
    THEN IF ~s.emailed
         THEN [sub |-> [s EXCEPT !.emailed = TRUE], send |-> TRUE]
         ELSE [sub |-> s, send |-> FALSE]
    ELSE [sub |-> [s EXCEPT !.emailed = FALSE], send |-> FALSE]

\* one evaluation of a VersionSub
check_out_of_date(v, version) ==
    latch(v, is_out_of_date(v.notify_type, version))

\* one evaluation of a BandwidthSub
check_below_bandwidth(b, bandwidth) ==
    latch(b, is_below_bandwidth(b.threshold, bandwidth))

InitVersionBandwidth ==
    /\ now = 0
    /\ NdIdle
    /\ TsIdle
    /\ FnIdle
    /\ \E nt \in NotifyTypes :
           versionsub = [notify_type |-> nt, emailed |-> FALSE]
    /\ \E th \in Thresholds :
           bandwidthsub = [threshold |-> th, emailed |-> FALSE]
    /\ vbh = [polls |-> 0, snap |-> "none", version |-> "none",
              bandwidth |-> 0, vfired |-> FALSE, bfired |-> FALSE,
              vsent |-> 0, bsent |-> 0]
    /\ IlIdle
    /\ CyIdle
    /\ WebIdle
    /\ LateIdle

\* a poll that got the router's descriptor
VbPollKnown ==
    /\ vbh.polls < MaxVPolls
    /\ \E version \in VersionClasses, bandwidth \in Bandwidths :
          LET rv == check_out_of_date(versionsub, version)
              rb == check_below_bandwidth(bandwidthsub, bandwidth)
          IN  /\ versionsub' = rv.sub
              /\ bandwidthsub' = rb.sub
              /\ vbh' = [polls |-> vbh.polls + 1, snap |-> "known",
                         version |-> version, bandwidth |-> bandwidth,
                         vfired |-> rv.send, bfired |-> rb.send,
                         vsent |-> IF rv.send THEN vbh.vsent + 1
                                   ELSE vbh.vsent,
                         bsent |-> IF rb.send THEN vbh.bsent + 1
                                   ELSE vbh.bsent]
    /\ UNCHANGED <<now, vbOthers>>

\* a poll that got no answer for the router: nothing is evaluated
VbPollUnknown ==
    /\ vbh.polls < MaxVPolls
    /\ vbh' = [vbh EXCEPT !.polls = vbh.polls + 1, !.snap = "unknown",
                          !.vfired = FALSE, !.bfired = FALSE]
    /\ UNCHANGED <<now, vbOthers, versionsub, bandwidthsub>>

NextVersionBandwidth == VbPollKnown \/ VbPollUnknown

SpecVersionBandwidth == InitVersionBandwidth /\ [][NextVersionBandwidth]_vars

(***************************************************************************)
(* A poll cycle interleaved with PreferencesForm.change_subscriptions      *)
(***************************************************************************)
MaxIlSteps == 6

\* time between the polls of the interleaving
IlGaps == {3600, 7200}

\* new_data of the preferences form, as far as the node-down section goes
NewData == [get_node_down : BOOLEAN, node_down_grace_pd : GracePds]

\* Model.save() of a row: every column is written, and the row is inserted
\* when it is not in the table
save(row) == [row EXCEPT !.present = TRUE]

\* a write-back by save(): the poll cycle's whole copy replaces the row
write_back_row(row, sub) == save(sub)

\* the poll cycle's write-back: triggered, last_changed and emailed of the
\* row are updated from the cycle's result; a row that is gone stays gone
write_back(row, sub) ==
    IF row.present
    THEN [row EXCEPT !.triggered = sub.triggered,
                     !.last_changed = sub.last_changed,
                     !.emailed = sub.emailed]
    ELSE row

InitInterleave ==
    /\ now = 0
    /\ NdIdle
    /\ TsIdle
    /\ FnIdle
    /\ VbIdle
    /\ \E g \in GracePds :
           store = [present |-> TRUE, grace_pd |-> g, emailed |-> FALSE,
                    triggered |-> FALSE, last_changed |-> 0]
    /\ engine = [pc |-> "idle", sub |-> store]
    /\ pref = [pc |-> "idle", n |-> store,
               new_data |-> [get_node_down |-> FALSE,
                             node_down_grace_pd |-> 1]]
    /\ ilh = [steps |-> 0, last |-> "none"]
    /\ CyIdle
    /\ WebIdle
    /\ LateIdle

Step(name) ==
    /\ ilh.steps < MaxIlSteps
    /\ ilh' = [steps |-> ilh.steps + 1, last |-> name]

\* check_node_down line 178: the cycle reads the node-down subscriptions
EngineRead ==
    /\ engine.pc = "idle"
    /\ store.present
    /\ Step("EngineRead")
    /\ engine' = [pc |-> "loaded", sub |-> store]
    /\ UNCHANGED <<now, store, pref, ilOthers>>

\* check_node_down lines 180-193 on the copy read, then the write-back
EngineWrite ==
    /\ engine.pc = "loaded"
    /\ Step("EngineWrite")
    /\ \E gap \in IlGaps, o \in Outcomes :
          /\ now' = now + gap
          /\ LET r == check_node_down(engine.sub, ping(o), now + gap)
             IN  /\ store' = write_back(store, r.sub)
                 /\ engine' = [pc |-> "idle", sub |-> r.sub]
    /\ UNCHANGED <<pref, ilOthers>>

\* change_subscriptions lines 1070-1075: old_data has a node-down
\* subscription, n = NodeDownSub.objects.get(subscriber = self.user)
PrefGet ==
    /\ pref.pc = "idle"
    /\ store.present
    /\ Step("PrefGet")
    /\ \E new_data \in NewData :
          pref' = [pc |-> "got", n |-> store, new_data |-> new_data]
    /\ UNCHANGED <<now, store, engine, ilOthers>>

\* change_subscriptions lines 1076-1078: n.grace_pd = ...; n.save()
PrefSave ==
    /\ pref.pc = "got"
    /\ pref.new_data.get_node_down
    /\ Step("PrefSave")
    /\ store' = save([pref.n EXCEPT
                        !.grace_pd = pref.new_data.node_down_grace_pd])
    /\ pref' = [pref EXCEPT !.pc = "idle"]
    /\ UNCHANGED <<now, engine, ilOthers>>

\* change_subscriptions lines 1079-1080: n.delete()
PrefDelete ==
    /\ pref.pc = "got"
    /\ ~pref.new_data.get_node_down
    /\ Step("PrefDelete")
    /\ store' = [store EXCEPT !.present = FALSE]
    /\ pref' = [pref EXCEPT !.pc = "idle"]
    /\ UNCHANGED <<now, engine, ilOthers>>

\* change_subscriptions lines 1083-1086 when old_data has no node-down
\* subscription: NodeDownSub(subscriber=subscriber, ...) names an undefined
\* variable, so a checked box raises NameError and no row is made; an
\* unchecked box does nothing
PrefAbsent ==
    /\ pref.pc = "idle"
    /\ ~store.present
    /\ \E new_data \in NewData :
          /\ Step(IF new_data.get_node_down THEN "NameError" ELSE "PrefNone")
          /\ pref' = [pref EXCEPT !.new_data = new_data]
    /\ UNCHANGED <<now, store, engine, ilOthers>>

NextInterleave ==
    \/ EngineRead
    \/ EngineWrite
    \/ PrefGet
    \/ PrefSave
    \/ PrefDelete
    \/ PrefAbsent

SpecInterleave == InitInterleave /\ [][NextInterleave]_vars

(***************************************************************************)
(* One poll cycle over the node-down subscriptions of one router           *)
(***************************************************************************)
MaxCycles == 3

InitCycle ==
    /\ now = 0
    /\ NdIdle
    /\ TsIdle
    /\ FnIdle
    /\ VbIdle
    /\ IlIdle
    /\ WebIdle
    /\ LateIdle
    /\ \E g1 \in GracePds, g2 \in GracePds :
          LET subscriptions == <<add_new_subscription(g1, 0),
                                 add_new_subscription(g2, 0)>>
          IN  cycle = [subs |-> subscriptions, start |-> subscriptions,
                       i |-> 0, o |-> "none", cycles |-> 0,
                       abandoned |-> FALSE]

\* check_node_down line 178: a cycle starts on the stored subscriptions;
\* the router answers every ping of the cycle alike
CycleStart ==
    /\ cycle.i = 0
    /\ cycle.cycles < MaxCycles
    /\ \E gap \in Gaps, o \in Outcomes :
          /\ now' = now + gap
          /\ cycle' = [cycle EXCEPT !.start = cycle.subs, !.i = 1, !.o = o,
                                    !.cycles = cycle.cycles + 1,
                                    !.abandoned = FALSE]
    /\ UNCHANGED cyOthers

\* check_node_down lines 179-193: one pass of the loop body; the cycle is
\* over after the last subscription
CycleStep ==
    /\ cycle.i \in 1..Len(cycle.subs)
    /\ LET r == check_node_down(cycle.subs[cycle.i], ping(cycle.o), now)
       IN  cycle' = [cycle EXCEPT
                       !.subs[cycle.i] = r.sub,
                       !.i = IF cycle.i = Len(cycle.subs) THEN 0
                             ELSE cycle.i + 1]
    /\ UNCHANGED <<now, cyOthers>>

\* the process is stopped inside the loop; check_node_down has nothing that
\* takes back what earlier passes of the loop stored
CycleAbandon ==
    /\ cycle.i \in 1..Len(cycle.subs)
    /\ cycle' = [cycle EXCEPT !.i = 0, !.abandoned = TRUE]
    /\ UNCHANGED <<now, cyOthers>>

NextCycle == CycleStart \/ CycleStep \/ CycleAbandon

SpecCycle == InitCycle /\ [][NextCycle]_vars

(***************************************************************************)
(* The subscribe form (later revision)                                     *)
(*                                                                         *)
(* Text typed into the form is a sequence of one-character strings; the    *)
(* prefix of a PrefixedIntegerField is one element of such a sequence.     *)
(***************************************************************************)
NODE_DOWN_GRACE_PD_INIT == 1
NODE_DOWN_GRACE_PD_MAX == 4500
NODE_DOWN_GRACE_PD_MIN == 1
BAND_LOW_THRESHOLD_INIT == 20
BAND_LOW_THRESHOLD_MIN == 0
BAND_LOW_THRESHOLD_MAX == 100000
VERSION_TYPE_INIT == "RECOMMENDED"
PREFIX == "Default value is "
FINGERPRINT_MAX_LEN == 80

DigitChars == {"0", "1", "2", "3", "4", "5", "6", "7", "8", "9"}

DigitVal(c) ==
    CASE c = "0" -> 0 [] c = "1" -> 1 [] c = "2" -> 2 [] c = "3" -> 3
      [] c = "4" -> 4 [] c = "5" -> 5 [] c = "6" -> 6 [] c = "7" -> 7
      [] c = "8" -> 8 [] c = "9" -> 9

\* int() of a text of decimal digits
RECURSIVE int(_)
int(text) ==
    IF text = <<>>
    THEN 0
    ELSE int(SubSeq(text, 1, Len(text) - 1)) * 10 + DigitVal(text[Len(text)])

\* the texts int() accepts
is_int(text) == text # <<>> /\ \A i \in 1..Len(text) : text[i] \in DigitChars

\* PrefixedIntegerField.to_python
to_python(value) ==
    IF value = <<>>
    THEN [error |-> "empty", value |-> 0]
    ELSE LET digits == IF Head(value) = PREFIX THEN Tail(value) ELSE value
         IN  IF is_int(digits)
             THEN [error |-> "", value |-> int(digits)]
             ELSE [error |-> "invalid", value |-> 0]

\* a PrefixedIntegerField with no validator appended
PrefixedIntegerField_clean_unchecked(value, max_value, min_value) ==
    to_python(value)

\* Field.clean of a PrefixedIntegerField: to_python, then the validators
\* __init__ appended (max_value and min_value are sets: empty for None)
PrefixedIntegerField_clean(value, max_value, min_value) ==
    LET r == to_python(value)
    IN  IF r.error # "" THEN r
        ELSE IF \E m \in max_value : r.value > m
        THEN [error |-> "max_value", value |-> 0]
        ELSE IF \E m \in min_value : r.value < m
        THEN [error |-> "min_value", value |-> 0]
        ELSE r

\* the addresses forms.EmailField accepts, among the texts of the model
EmailAddresses == {"name@place.com", "other@place.com"}

\* Field.clean of email_1 and email_2 (required EmailField)
EmailField_clean(value) ==
    IF value = "" THEN [error |-> "required", value |-> ""]
    ELSE IF value \notin EmailAddresses
    THEN [error |-> "invalid", value |-> ""]
    ELSE [error |-> "", value |-> value]

\* Field.clean of version_type (required ChoiceField)
version_type_clean(value) ==
    IF value = "" THEN [error |-> "required", value |-> ""]
    ELSE IF value \notin NotifyTypes
    THEN [error |-> "invalid_choice", value |-> ""]
    ELSE [error |-> "", value |-> value]

\* is_valid_router that finds every fingerprint
is_valid_router_any(fingerprint, routers) == TRUE

\* SubscribeForm.is_valid_router: a Router with that fingerprint exists
is_valid_router(fingerprint, routers) == fingerprint \in routers

\* re.sub(r' ', '', fingerprint)
remove_spaces(fingerprint) == SelectSeq(fingerprint, LAMBDA c : c # " ")

\* Field.clean of fingerprint (required CharField), then
\* SubscribeForm.clean_fingerprint
clean_fingerprint(value, routers) ==
    IF value = <<>> THEN [error |-> "required", value |-> <<>>]
    ELSE IF Len(value) > FINGERPRINT_MAX_LEN
    THEN [error |-> "max_length", value |-> <<>>]
    ELSE LET fingerprint == remove_spaces(value)
         IN  IF is_valid_router(fingerprint, routers)
             THEN [error |-> "", value |-> fingerprint]
             ELSE [error |-> "not_found", value |-> <<>>]

\* BaseForm._clean_fields: every field's clean, and clean_fingerprint; the
\* form is the pair of _errors ("" for a field without error) and
\* cleaned_data (a field with an error is not in cleaned_data: its value
\* here is a filler that is never read)
clean_fields(data, routers) ==
    LET g == PrefixedIntegerField_clean(data.node_down_grace_pd, {},
                                        {NODE_DOWN_GRACE_PD_MIN})
        b == PrefixedIntegerField_clean(data.band_low_threshold,
                                        {BAND_LOW_THRESHOLD_MAX},
                                        {BAND_LOW_THRESHOLD_MIN})
        v == version_type_clean(data.version_type)
        e1 == EmailField_clean(data.email_1)
        e2 == EmailField_clean(data.email_2)
        f == clean_fingerprint(data.fingerprint, routers)
    IN  [errors |->
           [email_1 |-> e1.error, email_2 |-> e2.error,
            fingerprint |-> f.error, node_down_grace_pd |-> g.error,
            version_type |-> v.error, band_low_threshold |-> b.error,
            all |-> ""],
         cleaned_data |->
           [email_1 |-> e1.value, email_2 |-> e2.value,
            fingerprint |-> f.value,
            get_node_down |-> data.get_node_down,
            node_down_grace_pd |-> g.value,
            node_down_grace_pd_unit |-> data.node_down_grace_pd_unit,
            get_version |-> data.get_version,
            version_type |-> v.value,
            get_band_low |-> data.get_band_low,
            band_low_threshold |-> b.value,
            get_t_shirt |-> data.get_t_shirt]]

\* a check that accepts a form with no box checked
check_if_sub_checked_any(data) == TRUE

\* GenericForm.check_if_sub_checked: TRUE when it raises no ValidationError
check_if_sub_checked(data) ==
    \/ data.get_node_down
    \/ data.get_version
    \/ data.get_band_low
    \/ data.get_t_shirt

\* GenericForm.convert_node_down_grace_pd_unit: the converted period is a
\* local of the method and is compared with the maximum; cleaned_data keeps
\* the number as typed
convert_node_down_grace_pd_unit(form) ==
    LET data == form.cleaned_data
        unit == data.node_down_grace_pd_unit
        grace_pd == IF unit = "D" THEN data.node_down_grace_pd * 24
                    ELSE IF unit = "W" THEN data.node_down_grace_pd * 24 * 7
                    ELSE IF unit = "M" THEN data.node_down_grace_pd * 24 * 30
                    ELSE data.node_down_grace_pd
    IN  IF form.errors.node_down_grace_pd = ""
           /\ grace_pd > NODE_DOWN_GRACE_PD_MAX
        THEN [errors |-> [form.errors EXCEPT
                            !.node_down_grace_pd = "max_period"],
              cleaned_data |-> [data EXCEPT !.node_down_grace_pd = 0,
                                            !.node_down_grace_pd_unit = ""]]
        ELSE form

\* GenericForm.delete_hidden_errors
delete_hidden_errors(form) ==
    LET data == form.cleaned_data
        errors == form.errors
        hide_g == errors.node_down_grace_pd # "" /\ ~data.get_node_down
        hide_v == errors.version_type # "" /\ ~data.get_version
        hide_b == errors.band_low_threshold # "" /\ ~data.get_band_low
    IN  [errors |->
           [errors EXCEPT
              !.node_down_grace_pd = IF hide_g THEN "" ELSE @,
              !.version_type = IF hide_v THEN "" ELSE @,
              !.band_low_threshold = IF hide_b THEN "" ELSE @],
         cleaned_data |->
           [data EXCEPT
              !.node_down_grace_pd =
                 IF hide_g THEN NODE_DOWN_GRACE_PD_INIT ELSE @,
              !.version_type = IF hide_v THEN VERSION_TYPE_INIT ELSE @,
              !.band_low_threshold =
                 IF hide_b THEN BAND_LOW_THRESHOLD_INIT ELSE @]]

\* SubscribeForm.clean lines 910-921: the two addresses must match
match_emails(form) ==
    IF /\ form.errors.email_1 = ""
       /\ form.errors.email_2 = ""
       /\ form.cleaned_data.email_1 # form.cleaned_data.email_2
    THEN [errors |-> [form.errors EXCEPT !.email_1 = "match",
                                         !.email_2 = "match"],
          cleaned_data |-> [form.cleaned_data EXCEPT !.email_1 = "",
                                                     !.email_2 = ""]]
    ELSE form

\* SubscribeForm.clean without lines 923-941: an empty parameter stays an
\* error
insert_defaults_never(form) == form

\* SubscribeForm.clean lines 923-941: an 'empty' error is deleted and the
\* default value put into cleaned_data
insert_defaults(form) ==
    LET empty_g == form.errors.node_down_grace_pd = "empty"
        empty_b == form.errors.band_low_threshold = "empty"
    IN  [errors |->
           [form.errors EXCEPT
              !.node_down_grace_pd = IF empty_g THEN "" ELSE @,
              !.band_low_threshold = IF empty_b THEN "" ELSE @],
         cleaned_data |->
           [form.cleaned_data EXCEPT
              !.node_down_grace_pd =
                 IF empty_g THEN NODE_DOWN_GRACE_PD_INIT ELSE @,
              !.band_low_threshold =
                 IF empty_b THEN BAND_LOW_THRESHOLD_INIT ELSE @]]

\* SubscribeForm.clean as BaseForm._clean_form runs it: a ValidationError of
\* check_if_sub_checked ends clean() and becomes the non-field error
SubscribeForm_clean(form) ==
    IF ~check_if_sub_checked(form.cleaned_data)
    THEN [form EXCEPT !.errors.all = "no_subscription"]
    ELSE insert_defaults(match_emails(delete_hidden_errors(
             convert_node_down_grace_pd_unit(form))))

\* BaseForm.full_clean of a SubscribeForm bound to data
full_clean(data, routers) == SubscribeForm_clean(clean_fields(data, routers))

\* BaseForm.is_valid: the form has no errors
is_valid(form) == \A k \in DOMAIN form.errors : form.errors[k] = ""

(***************************************************************************)
(* views.subscribe                                                         *)
(***************************************************************************)
MaxReqs == 2

Reqs == 1..MaxReqs

\* the Router table of the tests' setUp: one router, fingerprint '1234'
Routers == {<<"1", "2", "3", "4">>}

\* the POST data of test_subscribe_all
subscribe_all ==
    [email_1 |-> "name@place.com", email_2 |-> "name@place.com",
     fingerprint |-> <<"1", "2", "3", "4">>,
     get_node_down |-> TRUE, node_down_grace_pd |-> <<>>,
     node_down_grace_pd_unit |-> "",
     get_version |-> TRUE, version_type |-> "UNRECOMMENDED",
     get_band_low |-> TRUE, band_low_threshold |-> <<>>,
     get_t_shirt |-> TRUE]

\* the POST data of test_subscribe_node_down
subscribe_node_down ==
    [subscribe_all EXCEPT !.get_version = FALSE, !.version_type = "OBSOLETE",
                          !.get_band_low = FALSE, !.get_t_shirt = FALSE]

\* the POST data of test_subscribe_bandwidth
subscribe_bandwidth ==
    [subscribe_node_down EXCEPT !.get_node_down = FALSE,
                                !.get_band_low = TRUE,
                                !.band_low_threshold = <<"4", "0">>]

\* the POST data of test_subscribe_bad
subscribe_bad ==
    [subscribe_all EXCEPT !.fingerprint = <<"1", "2", "3", "4", "5">>]

\* the POST data of the model's requests: those of the tests, and forms
\* with a spaced fingerprint, a second address, a typed grace period in
\* days, no box checked, two addresses that differ, a grace period under
\* the minimum, a threshold over the maximum, a prefixed threshold, and a
\* checked version box without a version type
WebForms ==
    {subscribe_all, subscribe_node_down, subscribe_bandwidth, subscribe_bad,
     [subscribe_node_down EXCEPT !.fingerprint = <<"1", "2", " ", "3", "4">>,
                                 !.email_1 = "other@place.com",
                                 !.email_2 = "other@place.com",
                                 !.node_down_grace_pd = <<"2">>,
                                 !.node_down_grace_pd_unit = "D",
                                 !.get_t_shirt = TRUE],
     [subscribe_bandwidth EXCEPT !.get_band_low = FALSE],
     [subscribe_all EXCEPT !.email_2 = "other@place.com"],
     [subscribe_node_down EXCEPT !.node_down_grace_pd = <<"0">>],
     [subscribe_bandwidth EXCEPT
        !.band_low_threshold = <<"1", "0", "0", "0", "0", "1">>],
     [subscribe_bandwidth EXCEPT
        !.band_low_threshold = <<PREFIX, "2", "0">>,
        !.email_1 = "other@place.com", !.email_2 = "other@place.com"],
     [subscribe_all EXCEPT !.version_type = ""]}

\* Subscriber(email=email, router=router) with the defaults of its fields;
\* the random confirm_auth, unsubs_auth and pref_auth are named after the
\* row
Subscriber(id, email, fingerprint) ==
    [id |-> id, email |-> email, router |-> fingerprint,
     confirmed |-> FALSE, confirm_auth |-> <<"confirm_auth", id>>,
     unsubs_auth |-> <<"unsubs_auth", id>>,
     pref_auth |-> <<"pref_auth", id>>]

\* create_subscriber lines 1003-1004: the subscribers with that email and
\* router fingerprint
subscriber_query_set(d, email, fingerprint) ==
    {x \in d.subscribers : x.email = email /\ x.router = fingerprint}

\* create_subscriptions that makes a TShirtSub for every subscriber
create_subscriptions_all(d, cleaned_data, subscriber, t) ==
    [d EXCEPT
       !.node_down = IF cleaned_data.get_node_down
                     THEN @ \cup {[subscriber |-> subscriber,
                                   grace_pd |-> cleaned_data.node_down_grace_pd,
                                   emailed |-> FALSE, triggered |-> FALSE,
                                   last_changed |-> t]}
                     ELSE @,
       !.t_shirt = @ \cup {[subscriber |-> subscriber, emailed |-> FALSE,
                            triggered |-> FALSE, avg_bandwidth |-> 0,
                            last_changed |-> t]}]

\* SubscribeForm.create_subscriptions: one row per checked type, with the
\* defaults of the model fields
create_subscriptions(d, cleaned_data, subscriber, t) ==
    [d EXCEPT
       !.node_down = IF cleaned_data.get_node_down
                     THEN @ \cup {[subscriber |-> subscriber,
                                   grace_pd |-> cleaned_data.node_down_grace_pd,
                                   emailed |-> FALSE, triggered |-> FALSE,
                                   last_changed |-> t]}
                     ELSE @,
       !.version = IF cleaned_data.get_version
                   THEN @ \cup {[subscriber |-> subscriber,
                                 notify_type |-> cleaned_data.version_type,
                                 emailed |-> FALSE]}
                   ELSE @,
       !.band_low = IF cleaned_data.get_band_low
                    THEN @ \cup {[subscriber |-> subscriber,
                                  threshold |-> cleaned_data.band_low_threshold,
                                  emailed |-> FALSE]}
                    ELSE @,
       !.t_shirt = IF cleaned_data.get_t_shirt
                   THEN @ \cup {[subscriber |-> subscriber, emailed |-> FALSE,
                                 triggered |-> FALSE, avg_bandwidth |-> 0,
                                 last_changed |-> t]}
                   ELSE @]

\* emails._get_router_name: emails.py does not import Router, so the lookup
\* Router.objects.get raises NameError
get_router_name(fingerprint) == [error |-> "NameError"]

\* emails.send_confirmation: the mails it hands to send_mail; the exception
\* of _get_router_name ends it before send_mail
send_confirmation(recipient, fingerprint, confirm_auth) ==
    IF get_router_name(fingerprint).error # ""
    THEN <<>>
    ELSE <<[recipient |-> recipient, fingerprint |-> fingerprint,
            confirm_auth |-> confirm_auth]>>

NoRequest ==
    [pc |-> "idle", data |-> subscribe_all,
     form |-> full_clean(subscribe_all, Routers), subscriber |-> 0,
     response |-> "", thread |-> "none", args |-> <<>>]

InitWeb ==
    /\ now = 0
    /\ NdIdle
    /\ TsIdle
    /\ FnIdle
    /\ VbIdle
    /\ IlIdle
    /\ CyIdle
    /\ LateIdle
    /\ db = [routers |-> Routers, subscribers |-> {}, node_down |-> {},
             version |-> {}, band_low |-> {}, t_shirt |-> {}, next_id |-> 1]
    /\ req = [r \in Reqs |-> NoRequest]
    /\ outbox = <<>>

\* views.subscribe lines 39-45 and 70-76: a POST is bound to a
\* SubscribeForm; an invalid form is rendered again with its errors
Post(r) ==
    /\ req[r].pc = "idle"
    /\ \E data \in WebForms :
         LET form == full_clean(data, db.routers)
         IN  req' = [req EXCEPT ![r] =
                       [@ EXCEPT !.data = data, !.form = form,
                                 !.pc = IF is_valid(form) THEN "valid"
                                        ELSE "done",
                                 !.response = IF is_valid(form) THEN ""
                                              ELSE "subscribe.html"]]
    /\ UNCHANGED <<db, outbox, webOthers>>

\* create_subscriber lines 995-1009 with views.subscribe lines 50-51: an
\* existing subscriber with that email and router sends the user to the
\* error page
CheckSubscriber(r) ==
    /\ req[r].pc = "valid"
    /\ LET data == req[r].form.cleaned_data
           found == subscriber_query_set(db, data.email_1, data.fingerprint)
       IN  req' = [req EXCEPT ![r] =
                     [@ EXCEPT !.pc = IF found # {} THEN "done" ELSE "unique",
                               !.response = IF found # {}
                                            THEN "already_subscribed"
                                            ELSE ""]]
    /\ UNCHANGED <<db, outbox, webOthers>>

\* create_subscriber lines 1010-1013: the new Subscriber is saved
SaveSubscriber(r) ==
    /\ req[r].pc = "unique"
    /\ LET data == req[r].form.cleaned_data
       IN  db' = [db EXCEPT
                    !.subscribers = @ \cup {Subscriber(db.next_id,
                                                data.email_1,
                                                data.fingerprint)},
                    !.next_id = @ + 1]
    /\ req' = [req EXCEPT ![r] = [@ EXCEPT !.pc = "created",
                                           !.subscriber = db.next_id]]
    /\ UNCHANGED <<outbox, webOthers>>

\* views.subscribe line 54: form.create_subscriptions(subscriber)
CreateSubscriptions(r) ==
    /\ req[r].pc = "created"
    /\ db' = create_subscriptions(db, req[r].form.cleaned_data,
                                  req[r].subscriber, now)
    /\ req' = [req EXCEPT ![r] = [@ EXCEPT !.pc = "subscribed"]]
    /\ UNCHANGED <<outbox, webOthers>>

\* views.subscribe lines 57-68: the thread that sends the confirmation is
\* started, the user is sent to the pending page
StartThread(r) ==
    /\ req[r].pc = "subscribed"
    /\ LET subscriber == CHOOSE x \in db.subscribers :
                             x.id = req[r].subscriber
       IN  req' = [req EXCEPT ![r] =
                     [@ EXCEPT !.pc = "done", !.response = "pending.html",
                               !.thread = "started",
                               !.args = <<subscriber.email, subscriber.router,
                                          subscriber.confirm_auth>>]]
    /\ UNCHANGED <<db, outbox, webOthers>>

\* the thread runs emails.send_confirmation
RunThread(r) ==
    /\ req[r].thread = "started"
    /\ outbox' = outbox \o send_confirmation(req[r].args[1], req[r].args[2],
                                             req[r].args[3])
    /\ req' = [req EXCEPT ![r] = [@ EXCEPT !.thread = "finished"]]
    /\ UNCHANGED <<db, webOthers>>

NextWeb ==
    \E r \in Reqs :
       \/ Post(r)
       \/ CheckSubscriber(r)
       \/ SaveSubscriber(r)
       \/ CreateSubscriptions(r)
       \/ StartThread(r)
       \/ RunThread(r)

SpecWeb == InitWeb /\ [][NextWeb]_vars

(***************************************************************************)
(* The account views: subscribe, confirm, unsubscribe, preferences,        *)
(* pref_shortcut, and PreferencesForm                                      *)
(***************************************************************************)
\* BaseForm._clean_fields of a GenericForm (the PreferencesForm fields)
GenericForm_clean_fields(data) ==
    LET g == PrefixedIntegerField_clean(data.node_down_grace_pd, {},
                                        {NODE_DOWN_GRACE_PD_MIN})
        b == PrefixedIntegerField_clean(data.band_low_threshold,
                                        {BAND_LOW_THRESHOLD_MAX},
                                        {BAND_LOW_THRESHOLD_MIN})
        v == version_type_clean(data.version_type)
    IN  [errors |->
           [node_down_grace_pd |-> g.error, version_type |-> v.error,
            band_low_threshold |-> b.error, all |-> ""],
         cleaned_data |->
           [get_node_down |-> data.get_node_down,
            node_down_grace_pd |-> g.value,
            node_down_grace_pd_unit |-> data.node_down_grace_pd_unit,
            get_version |-> data.get_version,
            version_type |-> v.value,
            get_band_low |-> data.get_band_low,
            band_low_threshold |-> b.value,
            get_t_shirt |-> data.get_t_shirt]]

\* GenericForm.clean as BaseForm._clean_form runs it
GenericForm_clean(form) ==
    IF ~check_if_sub_checked(form.cleaned_data)
    THEN [form EXCEPT !.errors.all = "no_subscription"]
    ELSE delete_hidden_errors(convert_node_down_grace_pd_unit(form))

\* BaseForm.full_clean of a PreferencesForm bound to data
PreferencesForm_full_clean(data) ==
    GenericForm_clean(GenericForm_clean_fields(data))

\* Subscriber.get_preferences, as far as change_subscriptions reads it
get_preferences(d, user) ==
    [get_node_down |-> \E x \in d.node_down : x.subscriber = user,
     get_version |-> \E x \in d.version : x.subscriber = user,
     get_band_low |-> \E x \in d.band_low : x.subscriber = user,
     get_t_shirt |-> \E x \in d.t_shirt : x.subscriber = user]

\* change_subscriptions lines 1074-1086: the node-down block; line 1084
\* reads the undefined name `subscriber` and raises NameError
change_node_down(d, user, old_data, new_data, t) ==
    IF old_data.get_node_down
    THEN [error |-> "",
          table |-> IF new_data.get_node_down
                    THEN {IF x.subscriber = user
                          THEN [x EXCEPT !.grace_pd =
                                           new_data.node_down_grace_pd]
                          ELSE x : x \in d.node_down}
                    ELSE {x \in d.node_down : x.subscriber # user}]
    ELSE [error |-> IF new_data.get_node_down THEN "NameError" ELSE "",
          table |-> d.node_down]

\* PreferencesForm.change_subscriptions(old_data, new_data) for self.user;
\* an exception in the node-down block ends the method before the others
change_subscriptions(d, user, new_data, t) ==
    LET old_data == get_preferences(d, user)
        n == change_node_down(d, user, old_data, new_data, t)
        others(table) == {x \in table : x.subscriber # user}
    IN  IF n.error # ""
        THEN [db |-> d, error |-> n.error]
        ELSE [error |-> "",
              db |-> [d EXCEPT
                !.node_down = n.table,
                !.version =
                   IF new_data.get_version
                   THEN IF old_data.get_version
                        THEN {IF x.subscriber = user
                              THEN [x EXCEPT !.notify_type =
                                               new_data.version_type]
                              ELSE x : x \in @}
                        ELSE @ \cup {[subscriber |-> user,
                                      notify_type |-> new_data.version_type,
                                      emailed |-> FALSE]}
                   ELSE others(@),
                !.band_low =
                   IF new_data.get_band_low
                   THEN IF old_data.get_band_low
                        THEN {IF x.subscriber = user
                              THEN [x EXCEPT !.threshold =
                                               new_data.band_low_threshold]
                              ELSE x : x \in @}
                        ELSE @ \cup {[subscriber |-> user,
                                      threshold |->
                                         new_data.band_low_threshold,
                                      emailed |-> FALSE]}
                   ELSE others(@),
                !.t_shirt =
                   IF new_data.get_t_shirt
                   THEN IF old_data.get_t_shirt
                        THEN @
                        ELSE @ \cup {[subscriber |-> user,
                                      emailed |-> FALSE, triggered |-> FALSE,
                                      avg_bandwidth |-> 0,
                                      last_changed |-> t]}
                   ELSE others(@)]]

\* emails.send_confirmed: the mails it hands to send_mail; as in
\* send_confirmation, _get_router_name raises before send_mail
send_confirmed(recipient, fingerprint, unsubs_auth, pref_auth) ==
    IF get_router_name(fingerprint).error # ""
    THEN <<>>
    ELSE <<[recipient |-> recipient, fingerprint |-> fingerprint,
            unsubs_auth |-> unsubs_auth, pref_auth |-> pref_auth]>>

\* views.subscribe as one request: the response, the tables after it and
\* the thread it started
subscribe(d, data, t) ==
    LET form == full_clean(data, d.routers)
        cleaned_data == form.cleaned_data
        subscriber == Subscriber(d.next_id, cleaned_data.email_1,
                                 cleaned_data.fingerprint)
    IN  IF ~is_valid(form)
        THEN [db |-> d, response |-> "subscribe.html", threads |-> <<>>]
        ELSE IF subscriber_query_set(d, cleaned_data.email_1,
                                     cleaned_data.fingerprint) # {}
        THEN [db |-> d, response |-> "already_subscribed", threads |-> <<>>]
        ELSE [db |-> create_subscriptions(
                       [d EXCEPT !.subscribers = @ \cup {subscriber},
                                 !.next_id = @ + 1],
                       cleaned_data, subscriber.id, t),
              response |-> "pending.html",
              threads |-> <<[target |-> "send_confirmation",
                             user |-> subscriber.id,
                             args |-> <<subscriber.email, subscriber.router,
                                        subscriber.confirm_auth>>]>>]

\* confirm without the test of user.confirmed
confirm_again(d, confirm_auth) ==
    LET found == {x \in d.subscribers : x.confirm_auth = confirm_auth}
        user == CHOOSE x \in found : TRUE
    IN  IF found = {}
        THEN [db |-> d, response |-> "404", threads |-> <<>>]
        ELSE [db |-> [d EXCEPT !.subscribers =
                        (@ \ {user}) \cup {[user EXCEPT !.confirmed = TRUE]}],
              response |-> "confirm.html",
              threads |-> <<[target |-> "send_confirmed", user |-> user.id,
                             args |-> <<user.email, user.router,
                                        user.unsubs_auth, user.pref_auth>>]>>]

\* views.confirm
confirm(d, confirm_auth) ==
    LET found == {x \in d.subscribers : x.confirm_auth = confirm_auth}
        user == CHOOSE x \in found : TRUE
    IN  IF found = {}
        THEN [db |-> d, response |-> "404", threads |-> <<>>]
        ELSE IF ~user.confirmed
        THEN [db |-> [d EXCEPT !.subscribers =
                        (@ \ {user}) \cup {[user EXCEPT !.confirmed = TRUE]}],
              response |-> "confirm.html",
              threads |-> <<[target |-> "send_confirmed", user |-> user.id,
                             args |-> <<user.email, user.router,
                                        user.unsubs_auth, user.pref_auth>>]>>]
        ELSE [db |-> d, response |-> "already_confirmed", threads |-> <<>>]

\* unsubscribe that deletes the Subscriber row only
unsubscribe_row_only(d, unsubscribe_auth) ==
    LET found == {x \in d.subscribers : x.unsubs_auth = unsubscribe_auth}
    IN  IF found = {}
        THEN [db |-> d, response |-> "404", threads |-> <<>>]
        ELSE [db |-> [d EXCEPT !.subscribers = @ \ found],
              response |-> "unsubscribe.html", threads |-> <<>>]

\* views.unsubscribe: user.delete() deletes the Subscriber and, through the
\* foreign key Subscription.subscriber, every subscription of it
unsubscribe(d, unsubscribe_auth) ==
    LET found == {x \in d.subscribers : x.unsubs_auth = unsubscribe_auth}
        user == CHOOSE x \in found : TRUE
        others(table) == {x \in table : x.subscriber # user.id}
    IN  IF found = {}
        THEN [db |-> d, response |-> "404", threads |-> <<>>]
        ELSE [db |-> [d EXCEPT !.subscribers = @ \ {user},
                               !.node_down = others(@),
                               !.version = others(@),
                               !.band_low = others(@),
                               !.t_shirt = others(@)],
              response |-> "unsubscribe.html", threads |-> <<>>]

\* preferences without the test of user.confirmed
preferences_unconfirmed(d, pref_auth, method, data) ==
    LET found == {x \in d.subscribers : x.pref_auth = pref_auth}
    IN  IF found = {}
        THEN [db |-> d, response |-> "404", threads |-> <<>>]
        ELSE IF method # "POST"
        THEN [db |-> d, response |-> "preferences.html", threads |-> <<>>]
        ELSE IF is_valid(PreferencesForm_full_clean(data))
        THEN [db |-> d, response |-> "TypeError", threads |-> <<>>]
        ELSE [db |-> d, response |-> "preferences.html", threads |-> <<>>]

\* views.preferences; line 202 calls change_subscriptions(old_data,
\* new_data) with one argument, which raises TypeError before the method
\* body runs
preferences(d, pref_auth, method, data) ==
    LET found == {x \in d.subscribers : x.pref_auth = pref_auth}
        user == CHOOSE x \in found : TRUE
    IN  IF found = {}
        THEN [db |-> d, response |-> "404", threads |-> <<>>]
        ELSE IF ~user.confirmed
        THEN [db |-> d, response |-> "need_confirmation", threads |-> <<>>]
        ELSE IF method # "POST"
        THEN [db |-> d, response |-> "preferences.html", threads |-> <<>>]
        ELSE IF is_valid(PreferencesForm_full_clean(data))
        THEN [db |-> d, response |-> "TypeError", threads |-> <<>>]
        ELSE [db |-> d, response |-> "preferences.html", threads |-> <<>>]

\* views.pref_shortcut: the first Subscriber of the table is confirmed and
\* the request is sent on to that subscriber's preferences page
pref_shortcut(d) ==
    LET user == CHOOSE x \in d.subscribers :
                    \A y \in d.subscribers : x.id <= y.id
    IN  IF d.subscribers = {}
        THEN [db |-> d, response |-> "IndexError", threads |-> <<>>]
        ELSE [db |-> [d EXCEPT !.subscribers =
                        (@ \ {user}) \cup {[user EXCEPT !.confirmed = TRUE]}],
              response |-> "preferences", threads |-> <<>>]

MaxAcctReqs == 3

\* the POST data of the preferences form in the model: a typed grace
\* period, a version type, a grace period with a threshold, no box checked,
\* a threshold over the maximum, a grace period under the minimum, and a
\* grace period in months that is over the maximum once converted
pref_node_down ==
    [get_node_down |-> TRUE, node_down_grace_pd |-> <<"2">>,
     node_down_grace_pd_unit |-> "H",
     get_version |-> FALSE, version_type |-> "OBSOLETE",
     get_band_low |-> FALSE, band_low_threshold |-> <<>>,
     get_t_shirt |-> FALSE]

PrefForms ==
    {pref_node_down,
     [pref_node_down EXCEPT !.get_node_down = FALSE, !.get_version = TRUE],
     [pref_node_down EXCEPT !.get_band_low = TRUE,
                            !.band_low_threshold = <<"4", "0">>,
                            !.get_t_shirt = TRUE],
     [pref_node_down EXCEPT !.get_node_down = FALSE],
     [pref_node_down EXCEPT
        !.get_band_low = TRUE,
        !.band_low_threshold = <<"1", "0", "0", "0", "0", "1">>],
     [pref_node_down EXCEPT !.node_down_grace_pd = <<"0">>],
     [pref_node_down EXCEPT !.node_down_grace_pd = <<"7">>,
                            !.node_down_grace_pd_unit = "M"]}

\* the POST data of the subscribe requests in the model
AcctForms ==
    {[subscribe_bandwidth EXCEPT !.email_1 = "other@place.com",
                                 !.email_2 = "other@place.com"],
     [subscribe_bandwidth EXCEPT !.get_band_low = FALSE],
     [subscribe_node_down EXCEPT !.email_1 = "other@place.com",
                                 !.email_2 = "other@place.com",
                                 !.node_down_grace_pd = <<"7">>,
                                 !.node_down_grace_pd_unit = "M"],
     [subscribe_node_down EXCEPT !.email_1 = "other@place.com",
                                 !.email_2 = "other@place.com",
                                 !.node_down_grace_pd = <<"2">>,
                                 !.node_down_grace_pd_unit = "D"]}

\* the keys a request can carry: the tokens of the first two subscribers
\* and a key that belongs to nobody
ConfirmKeys ==
    {<<"confirm_auth", 1>>, <<"confirm_auth", 2>>, <<"pref_auth", 1>>,
     <<"guess", 0>>}
UnsubscribeKeys == {<<"unsubs_auth", 1>>, <<"unsubs_auth", 2>>, <<"guess", 0>>}
PreferencesKeys == {<<"pref_auth", 1>>, <<"pref_auth", 2>>, <<"guess", 0>>}

\* the tables after the subscribe request of test_subscribe_all or
\* test_subscribe_node_down; its confirmation thread is started
InitAccount ==
    /\ now = 0
    /\ NdIdle
    /\ TsIdle
    /\ FnIdle
    /\ VbIdle
    /\ IlIdle
    /\ CyIdle
    /\ HscIdle
    /\ req = <<>>
    /\ outbox = <<>>
    /\ \E data \in {subscribe_all, subscribe_node_down} :
         LET r == subscribe([routers |-> Routers, subscribers |-> {},
                             node_down |-> {}, version |-> {},
                             band_low |-> {}, t_shirt |-> {},
                             next_id |-> 1], data, 0)
         IN  /\ db = r.db
             /\ acct = [n |-> 0,
                        last |-> [view |-> "subscribe", token |-> <<>>,
                                  method |-> "POST", data |-> data,
                                  user |-> 0, response |-> r.response],
                        threads |-> r.threads, started |-> r.threads]

\* a request has been answered with result r
Answered(r, view, token, method, data, user) ==
    /\ db' = r.db
    /\ acct' = [n |-> acct.n + 1,
                last |-> [view |-> view, token |-> token, method |-> method,
                          data |-> data, user |-> user,
                          response |-> r.response],
                threads |-> acct.threads \o r.threads,
                started |-> acct.started \o r.threads]
    /\ UNCHANGED <<outbox, acctOthers>>

Subscribe ==
    /\ acct.n < MaxAcctReqs
    /\ \E data \in AcctForms :
       Answered(subscribe(db, data, now), "subscribe", <<>>, "POST", data, 0)

Confirm ==
    /\ acct.n < MaxAcctReqs
    /\ \E key \in ConfirmKeys :
       Answered(confirm(db, key), "confirm", key, "GET", <<>>, 0)

Unsubscribe ==
    /\ acct.n < MaxAcctReqs
    /\ \E key \in UnsubscribeKeys :
       Answered(unsubscribe(db, key), "unsubscribe", key, "GET", <<>>, 0)

PreferencesGet ==
    /\ acct.n < MaxAcctReqs
    /\ \E key \in PreferencesKeys :
       Answered(preferences(db, key, "GET", <<>>), "preferences", key,
                "GET", <<>>, 0)

PreferencesPost ==
    /\ acct.n < MaxAcctReqs
    /\ \E key \in PreferencesKeys, data \in PrefForms :
       Answered(preferences(db, key, "POST", data), "preferences", key,
                "POST", data, 0)

PrefShortcut ==
    /\ acct.n < MaxAcctReqs
    /\ Answered(pref_shortcut(db), "pref_shortcut", <<>>, "GET", <<>>, 0)

\* PreferencesForm.change_subscriptions run as it is written, with both
\* arguments, for a confirmed user and the cleaned data of a valid form
ChangeSubscriptions ==
    /\ acct.n < MaxAcctReqs
    /\ \E user \in db.subscribers, data \in PrefForms :
       LET form == PreferencesForm_full_clean(data)
           c == change_subscriptions(db, user.id, form.cleaned_data, now)
       IN  /\ user.confirmed
           /\ is_valid(form)
           /\ Answered([db |-> c.db, threads |-> <<>>,
                        response |-> IF c.error = "" THEN "confirm_pref"
                                     ELSE c.error],
                       "change_subscriptions", user.pref_auth, "POST", data,
                       user.id)

\* a started thread runs its target
RunMailThread ==
    /\ acct.threads # <<>>
    /\ LET th == Head(acct.threads)
       IN  outbox' = outbox \o
              (IF th.target = "send_confirmation"
               THEN send_confirmation(th.args[1], th.args[2], th.args[3])
               ELSE send_confirmed(th.args[1], th.args[2], th.args[3],
                                   th.args[4]))
    /\ acct' = [acct EXCEPT !.threads = Tail(@)]
    /\ UNCHANGED <<db, acctOthers>>

NextAccount ==
    \/ Subscribe
    \/ Confirm
    \/ Unsubscribe
    \/ PreferencesGet
    \/ PreferencesPost
    \/ PrefShortcut
    \/ ChangeSubscriptions
    \/ RunMailThread

SpecAccount == InitAccount /\ [][NextAccount]_vars

(***************************************************************************)
(* Properties                                                              *)
(***************************************************************************)
\* a poll has just run (the node-down poll counter advanced in this step)
Polled == polls' = polls + 1

\* C1: at most one node-down notification is sent per contiguous triggered
\* episode, and once triggered and emailed are both true a further poll
\* that leaves the subscription triggered sends nothing.
C1_OncePerEpisode ==
    /\ [](episodeSent <= 1)
    /\ [][(subscription.triggered /\ subscription.emailed
              /\ subscription'.triggered) => sent' = sent]_vars

\* C1 witness: a notified, still-down subscription was polled again, the
\* node was seen down again, and that poll sent nothing.
C1_Witness ==
    /\ subscription.triggered
    /\ subscription.emailed
    /\ episodeSent = 1
    /\ outcome = "ErrorReply"
    /\ ~fired
    /\ timedelta_hours(timedelta(now, subscription.last_changed))
           > subscription.grace_pd

\* C2 (as claimed): emailed implies triggered in every reachable state.
C2_NotifiedImpliesTriggered == subscription.emailed => subscription.triggered

\* C3 (as claimed): a poll that changes triggered sets emailed to false and
\* last_changed to the poll's time; a poll that does not change triggered
\* leaves last_changed unchanged.
C3_FlipResets ==
    [][Polled =>
         /\ (subscription'.triggered # subscription.triggered =>
                /\ subscription'.emailed = FALSE
                /\ subscription'.last_changed = now')
         /\ (subscription'.triggered = subscription.triggered =>
                subscription'.last_changed = subscription.last_changed)]_vars

\* C4 (as claimed): a poll sends the node-down notification if and only if
\* the subscription is triggered, not yet emailed, and the whole hours
\* elapsed since last_changed are at least grace_pd.
C4_FiresIffGracePassed ==
    [][Polled =>
         (fired' <=> /\ subscription'.triggered
                     /\ ~subscription.emailed
                     /\ is_grace_passed(subscription, now'))]_vars

C6_ErrorChangesNothing ==
    [][(Polled /\ outcome' = "error") => subscription' = subscription]_vars

\* C7: the T-shirt notification is terminal: at most one is ever sent,
\* emailed never returns to false, and once emailed should_email is false
\* for every hours_up, bandwidth, triggered flag and router kind.
C7_TShirtTerminal ==
    /\ [](tsent <= 1)
    /\ [](tshirt.emailed =>
            \A h \in HoursUps, a \in AvgBandwidths, tr \in BOOLEAN,
               e \in BOOLEAN :
                ~TShirtSub_should_email(
                    [tshirt EXCEPT !.avg_bandwidth = a, !.triggered = tr],
                    e, h))
    /\ [][tshirt.emailed => tshirt'.emailed]_vars

\* C7 witness: after the T-shirt email the router went down, came back and
\* the subscription is triggered again with one email sent in all.
C7_Witness ==
    /\ tshirt.emailed
    /\ tsent = 1
    /\ tbounced
    /\ tshirt.triggered

\* C8: should_email(hours_up) is true exactly when the subscription is not
\* emailed, is triggered, hours_up >= 1464 and avg_bandwidth >= 100 for an
\* exit router, >= 500 otherwise.
C8_ShouldEmailExact ==
    se.done =>
        (se.result <=>
            /\ ~se.emailed
            /\ se.triggered
            /\ se.hours_up >= 1464
            /\ (se.exit => se.avg_bandwidth >= 100)
            /\ (~se.exit => se.avg_bandwidth >= 500))

\* C8 witness: the call on the boundary (1464 hours, exit router, 100 KB/s)
\* returned true.
C8_Witness ==
    /\ se.done
    /\ se.result
    /\ se.hours_up = 1464
    /\ se.exit
    /\ se.avg_bandwidth = 100

C11_UptimeHours ==
    LET h == get_hours_since_triggered(tshirt, now)
    IN  /\ (~tshirt.triggered => h = 0)
        /\ (tsnap = "down" => h = 0)
        /\ (tshirt.triggered =>
               /\ h * 3600 <= now - upSince
               /\ now - upSince < (h + 1) * 3600)

\* C11 witness: the router has been up for more than a day across several
\* polls and the uptime is the whole hours of that span.
C11_Witness ==
    /\ tshirt.triggered
    /\ tpolls >= 3
    /\ tsnap = "up"
    /\ now - upSince = 1464 * 3600
    /\ get_hours_since_triggered(tshirt, now) = 1464

C13_NoDoubleSend == episodeSent <= 1

C15_PrefKeepsTriggerState ==
    [][ilh'.last = "PrefSave" =>
         /\ store'.triggered = store.triggered
         /\ store'.last_changed = store.last_changed
         /\ store'.emailed = store.emailed]_vars

\* C16: trigger state is stored all-or-nothing per router and cycle: after
\* a cycle that was abandoned, the stored subscriptions of the router are
\* what they were when the cycle began.
C16_AllOrNothing ==
    (cycle.i = 0 /\ cycle.abandoned) => cycle.subs = cycle.start

\* C17: a subscribe request that succeeded has made one Subscriber and, for
\* each of the four types, one subscription when the box was checked and
\* none when it was not, each with emailed = False, triggered = False (node
\* down, T-shirt) and avg_bandwidth = 0 (T-shirt); there are as many
\* subscribers as requests that saved one.
C17_OnePerCheckedType ==
    /\ Cardinality(db.subscribers) =
         Cardinality({r \in Reqs : req[r].subscriber # 0})
    /\ \A r \in Reqs :
         req[r].response = "pending.html" =>
           LET id == req[r].subscriber
               data == req[r].data
               nd == {x \in db.node_down : x.subscriber = id}
               vs == {x \in db.version : x.subscriber = id}
               bl == {x \in db.band_low : x.subscriber = id}
               ts == {x \in db.t_shirt : x.subscriber = id}
           IN  /\ Cardinality({x \in db.subscribers : x.id = id}) = 1
               /\ Cardinality(nd) = IF data.get_node_down THEN 1 ELSE 0
               /\ Cardinality(vs) = IF data.get_version THEN 1 ELSE 0
               /\ Cardinality(bl) = IF data.get_band_low THEN 1 ELSE 0
               /\ Cardinality(ts) = IF data.get_t_shirt THEN 1 ELSE 0
               /\ \A x \in nd : ~x.emailed /\ ~x.triggered
               /\ \A x \in vs : ~x.emailed
               /\ \A x \in bl : ~x.emailed
               /\ \A x \in ts : ~x.emailed /\ ~x.triggered
                                /\ x.avg_bandwidth = 0

\* C17 witness: one request with all four boxes checked and one with only
\* the low-bandwidth box checked have both succeeded.
C17_Witness ==
    \E r1 \in Reqs, r2 \in Reqs :
       /\ req[r1].response = "pending.html"
       /\ req[r1].data = subscribe_all
       /\ req[r2].response = "pending.html"
       /\ req[r2].data = subscribe_bandwidth
       /\ Cardinality(db.t_shirt) = 1
       /\ Cardinality(db.band_low) = 2

\* C18: a checked node-down (low-bandwidth) box with an empty parameter
\* field leaves no error on that field, the form is valid exactly when it
\* would be with the default typed in, and the subscription is stored with
\* grace_pd = 1 (threshold = 20); a typed threshold of 40 is stored as 40.
C18_DefaultsWhenEmpty ==
    \A r \in Reqs :
       req[r].pc # "idle" =>
         LET data == req[r].data
             form == req[r].form
             id == req[r].subscriber
             stored == req[r].response = "pending.html"
         IN  /\ (data.get_node_down /\ data.node_down_grace_pd = <<>>) =>
                  /\ form.errors.node_down_grace_pd = ""
                  /\ is_valid(form) =
                       is_valid(full_clean(
                          [data EXCEPT !.node_down_grace_pd = <<"1">>],
                          db.routers))
                  /\ stored => \A x \in db.node_down :
                                  x.subscriber = id => x.grace_pd = 1
             /\ (data.get_band_low /\ data.band_low_threshold = <<>>) =>
                  /\ form.errors.band_low_threshold = ""
                  /\ is_valid(form) =
                       is_valid(full_clean(
                          [data EXCEPT !.band_low_threshold = <<"2", "0">>],
                          db.routers))
                  /\ stored => \A x \in db.band_low :
                                  x.subscriber = id => x.threshold = 20
             /\ (data.get_band_low /\ stored
                   /\ data.band_low_threshold = <<"4", "0">>) =>
                  \A x \in db.band_low :
                     x.subscriber = id => x.threshold = 40

\* C18 witness: a request with both boxes checked and both parameters empty
\* has succeeded and its rows hold 1 and 20; another stored the typed 40.
C18_Witness ==
    /\ \E r \in Reqs :
          /\ req[r].response = "pending.html"
          /\ req[r].data.get_node_down
          /\ req[r].data.node_down_grace_pd = <<>>
          /\ req[r].data.get_band_low
          /\ req[r].data.band_low_threshold = <<>>
          /\ \E x \in db.node_down :
                x.subscriber = req[r].subscriber /\ x.grace_pd = 1
          /\ \E x \in db.band_low :
                x.subscriber = req[r].subscriber /\ x.threshold = 20
    /\ \E x \in db.band_low : x.threshold = 40

\* C19: a subscribe request whose fingerprint, spaces removed, is the
\* fingerprint of no Router ends with the subscribe form shown again; it
\* saves no Subscriber and no subscription, starts no confirmation thread
\* and sends no mail, and no subscriber of an unknown router is ever stored.
C19_UnknownFingerprintRejected ==
    /\ [](\A x \in db.subscribers : x.router \in db.routers)
    /\ [](\A r \in Reqs :
            (/\ req[r].pc # "idle"
             /\ SelectSeq(req[r].data.fingerprint, LAMBDA c : c # " ")
                   \notin db.routers)
            => /\ req[r].pc = "done"
               /\ req[r].response = "subscribe.html"
               /\ req[r].subscriber = 0
               /\ req[r].thread = "none")
    /\ [][\A r \in Reqs :
            (/\ req[r].pc = "idle"
             /\ req'[r].pc # "idle"
             /\ SelectSeq(req'[r].data.fingerprint, LAMBDA c : c # " ")
                   \notin db.routers)
            => db' = db /\ outbox' = outbox]_vars

\* C19 witness: the request of test_subscribe_bad was answered with the
\* subscribe form after another request had stored a subscriber.
C19_Witness ==
    \E r \in Reqs :
       /\ req[r].data = subscribe_bad
       /\ req[r].pc = "done"
       /\ req[r].response = "subscribe.html"
       /\ req[r].form.errors.fingerprint = "not_found"
       /\ Cardinality(db.subscribers) = 1
       /\ \A x \in db.subscribers : x.id # req[r].subscriber

\* C20: every subscribe request that succeeded sends exactly one
\* confirmation mail, its thread is started only once the Subscriber and
\* the subscriptions are saved, and the Subscriber is left with
\* confirmed = False; a rejected or duplicate request starts no thread.
C20_OneConfirmation ==
    \A r \in Reqs :
       /\ req[r].thread = "finished" =>
            Cardinality({i \in DOMAIN outbox :
                           outbox[i].confirm_auth =
                              <<"confirm_auth", req[r].subscriber>>}) = 1
       /\ req[r].thread # "none" =>
            /\ req[r].pc = "done"
            /\ \E x \in db.subscribers :
                  x.id = req[r].subscriber /\ ~x.confirmed
       /\ req[r].response \in {"subscribe.html", "already_subscribed"} =>
            req[r].thread = "none"

\* C21: no two Subscribers have the same email and router fingerprint, also
\* when subscribe requests for the same pair run concurrently; a request
\* for a pair that already has a Subscriber ends at the already_subscribed
\* error and saves nothing.
C21_UniqueSubscriber ==
    /\ \A x \in db.subscribers, y \in db.subscribers :
          (x.email = y.email /\ x.router = y.router) => x = y
    /\ \A r \in Reqs :
          req[r].response = "already_subscribed" => req[r].subscriber = 0

subscriptions_of(d, id) ==
    {x \in d.node_down \cup d.version \cup d.band_low \cup d.t_shirt :
        x.subscriber = id}

\* C23: an unsubscribe request with the unsubs_auth of a Subscriber deletes
\* that Subscriber and all its subscriptions; no subscription ever
\* references a Subscriber that is not stored; a later confirm, unsubscribe
\* or preferences request with a token of a deleted Subscriber gets 404 and
\* changes nothing.
C23_UnsubscribeDeletesAll ==
    /\ [][acct'.last.view = "unsubscribe" /\ acct'.n = acct.n + 1 =>
            \A x \in db.subscribers :
               x.unsubs_auth = acct'.last.token =>
                 /\ \A y \in db'.subscribers : y.id # x.id
                 /\ subscriptions_of(db', x.id) = {}
                 /\ acct'.last.response = "unsubscribe.html"]_vars
    /\ [](\A id \in 1..(db.next_id - 1) :
            subscriptions_of(db, id) # {} =>
               \E x \in db.subscribers : x.id = id)
    /\ [][(/\ acct'.n = acct.n + 1
           /\ acct'.last.view \in {"confirm", "unsubscribe", "preferences"}
           /\ acct'.last.token[2] \in 1..(db.next_id - 1)
           /\ \A x \in db.subscribers : x.id # acct'.last.token[2])
          => (acct'.last.response = "404" /\ db' = db)]_vars

\* C23 witness: subscriber 1 was deleted with its subscriptions, and a
\* later preferences request with its pref_auth was answered 404.
C23_Witness ==
    /\ acct.last.view = "preferences"
    /\ acct.last.token = <<"pref_auth", 1>>
    /\ acct.last.response = "404"
    /\ db.next_id > 1
    /\ \A x \in db.subscribers : x.id # 1
    /\ subscriptions_of(db, 1) = {}

\* C24: a preferences request, GET or POST, with the pref_auth of a
\* Subscriber that is not confirmed is redirected to need_confirmation and
\* leaves every table as it was.
C24_UnconfirmedPreferences ==
    [][acct'.last.view = "preferences" /\ acct'.n = acct.n + 1 =>
         \A x \in db.subscribers :
            (x.pref_auth = acct'.last.token /\ ~x.confirmed) =>
               /\ acct'.last.response = "need_confirmation"
               /\ db' = db]_vars

\* C24 witness: a POST of a valid preferences form for the unconfirmed
\* subscriber 1 was redirected to need_confirmation.
C24_Witness ==
    /\ acct.last.view = "preferences"
    /\ acct.last.method = "POST"
    /\ acct.last.token = <<"pref_auth", 1>>
    /\ is_valid(PreferencesForm_full_clean(acct.last.data))
    /\ acct.last.response = "need_confirmation"
    /\ \E x \in db.subscribers : x.id = 1 /\ ~x.confirmed

\* the hours a typed number of units stands for
hours_of(n, unit) ==
    IF unit = "D" THEN n * 24
    ELSE IF unit = "W" THEN n * 168
    ELSE IF unit = "M" THEN n * 720
    ELSE n

\* POST data that checks node down with a number under the minimum or over
\* the maximum once converted, or checks low bandwidth with a number
\* outside the threshold bounds
out_of_bounds(data) ==
    \/ /\ data.get_node_down
       /\ to_python(data.node_down_grace_pd).error = ""
       /\ LET n == to_python(data.node_down_grace_pd).value
          IN  \/ n < NODE_DOWN_GRACE_PD_MIN
              \/ hours_of(n, data.node_down_grace_pd_unit) >
                    NODE_DOWN_GRACE_PD_MAX
    \/ /\ data.get_band_low
       /\ to_python(data.band_low_threshold).error = ""
       /\ LET n == to_python(data.band_low_threshold).value
          IN  n < BAND_LOW_THRESHOLD_MIN \/ n > BAND_LOW_THRESHOLD_MAX

\* C25: every stored NodeDownSub has 1 <= grace_pd <= 4500 and every
\* stored BandwidthSub has 0 <= threshold <= 100000; a subscribe or
\* preferences submission with an out-of-bounds value for a checked type
\* is rejected and leaves every table as it was.
C25_StoredWithinBounds ==
    /\ [](/\ \A x \in db.node_down :
               /\ x.grace_pd >= NODE_DOWN_GRACE_PD_MIN
               /\ x.grace_pd <= NODE_DOWN_GRACE_PD_MAX
          /\ \A x \in db.band_low :
               /\ x.threshold >= BAND_LOW_THRESHOLD_MIN
               /\ x.threshold <= BAND_LOW_THRESHOLD_MAX)
    /\ [][(/\ acct'.n = acct.n + 1
           /\ acct'.last.method = "POST"
           /\ out_of_bounds(acct'.last.data))
          => (/\ db' = db
              /\ acct'.last.response \notin {"pending.html", "confirm_pref"})
        ]_vars

\* C25 witness: the confirmed subscriber 1 posted a preferences form with
\* an out-of-bounds value and got the form back, with a node-down
\* subscription stored.
C25_Witness ==
    /\ acct.last.view = "preferences"
    /\ acct.last.method = "POST"
    /\ out_of_bounds(acct.last.data)
    /\ acct.last.response = "preferences.html"
    /\ db.node_down # {}

\* C26: when a confirmed subscriber submits a valid preferences form,
\* change_subscriptions completes without error and afterwards the
\* subscriber has a subscription of each type exactly when its box is
\* checked, with the submitted grace period, version type and threshold.
C26_PreferencesApplied ==
    [][(/\ acct'.n = acct.n + 1
        /\ acct'.last.method = "POST"
        /\ acct'.last.view \in {"preferences", "change_subscriptions"}
        /\ \E x \in db.subscribers :
              x.pref_auth = acct'.last.token /\ x.confirmed
        /\ is_valid(PreferencesForm_full_clean(acct'.last.data)))
       => LET user == acct'.last.token[2]
              new_data == PreferencesForm_full_clean(acct'.last.data).cleaned_data
          IN  /\ acct'.last.response = "confirm_pref"
              /\ (\E x \in db'.node_down : x.subscriber = user)
                    <=> new_data.get_node_down
              /\ (\E x \in db'.version : x.subscriber = user)
                    <=> new_data.get_version
              /\ (\E x \in db'.band_low : x.subscriber = user)
                    <=> new_data.get_band_low
              /\ (\E x \in db'.t_shirt : x.subscriber = user)
                    <=> new_data.get_t_shirt
              /\ \A x \in db'.node_down :
                    x.subscriber = user =>
                       x.grace_pd = new_data.node_down_grace_pd
              /\ \A x \in db'.version :
                    x.subscriber = user =>
                       x.notify_type = new_data.version_type
              /\ \A x \in db'.band_low :
                    x.subscriber = user =>
                       x.threshold = new_data.band_low_threshold]_vars

\* C27: confirmed turns from False to True only in a confirm request that
\* carries that subscriber's own confirm_auth, and only a request that
\* carries a token of a subscriber is led to a preferences page.
C27_ConfirmNeedsToken ==
    /\ [][\A x \in db.subscribers, y \in db'.subscribers :
            (x.id = y.id /\ ~x.confirmed /\ y.confirmed) =>
               /\ acct'.last.view = "confirm"
               /\ acct'.last.token = x.confirm_auth]_vars
    /\ [][(/\ acct'.n = acct.n + 1
           /\ acct'.last.response \in {"preferences", "preferences.html"})
          => \E x \in db.subscribers :
                acct'.last.token \in {x.confirm_auth, x.pref_auth}]_vars

\* C28: a successful subscribe or preferences submission that checks node
\* down with the number N and a unit stores grace_pd in hours: N, N*24,
\* N*168 or N*720; a submission whose period is over 4500 hours stores
\* nothing.
C28_GraceStoredInHours ==
    [][(/\ acct'.n = acct.n + 1
        /\ acct'.last.method = "POST"
        /\ acct'.last.data.get_node_down
        /\ to_python(acct'.last.data.node_down_grace_pd).error = "")
       => LET data == acct'.last.data
              hours == hours_of(to_python(data.node_down_grace_pd).value,
                                data.node_down_grace_pd_unit)
          IN  /\ acct'.last.response = "pending.html" =>
                    \A x \in db'.node_down \ db.node_down :
                       x.grace_pd = hours
              /\ acct'.last.response = "confirm_pref" =>
                    \A x \in db'.node_down :
                       x.subscriber = acct'.last.user => x.grace_pd = hours
              /\ hours > NODE_DOWN_GRACE_PD_MAX => db' = db]_vars

\* C29: a call of hours_since_changed raises nothing and returns the whole
\* hours between last_changed and now, days * 24 + seconds div 3600.
C29_WholeHours ==
    hsc.done =>
       /\ hsc.error = ""
       /\ hsc.value = timedelta_hours(timedelta(now, hsc.last_changed))
       /\ hsc.value = (now - hsc.last_changed) \div 3600

====
